---- MODULE Spec2Model ----
(***************************************************************************)
(* Flowpoint Outlook add-in: the bulk-archive upload pipeline.             *)
(*                                                                         *)
(* Two copies of the pipeline exist: the task pane (TaskPane.tsx) and the  *)
(* dialog (dialog.tsx).  Both are modelled; `ui` says which one runs.      *)
(* The model follows the code at the granularity of its awaits: a request  *)
(* is issued, the server answers it, the continuation runs.                *)
(* The task pane's library browser and the opening of the dialog (from the *)
(* task pane or from the ribbon command, commands.ts) are modelled too.    *)
(***************************************************************************)
EXTENDS Integers, Sequences, FiniteSets, TLC

VARIABLES
    ui,              \* "taskpane" | "dialog" | "none" (the bare retry harness)
    sel,             \* ids selected in Outlook / received by the dialog: <<1, .., n>>
    hasToken,        \* component state `token` is non-empty
    hasDrive,        \* dialog: selectedDrive is non-empty; task pane: a library is open at first
    hasSite,         \* task pane: getCurrentSiteId() is non-empty
    hasFolder,       \* dialog: selectedFolder is non-empty
    availableFields, \* task pane: component state `availableFields`
    mailbox,         \* the user's mailbox: restId -> what the metadata GET returns for it
    nav,             \* task pane: selectedDriveId and the folder names of folderStack
    favorites,       \* task pane: component state `favorites`
    opener,          \* who opens the dialog: "taskpane" | "ribbon" | "none"
    ppc,             \* position of the opener's openBulkArchiveDialog
    completed,       \* ribbon command: number of calls of event.completed()
    stored,          \* localStorage "flowpoint:favorites" as the opener reads it: <<list>> or <<>>
    dlgStored,       \* the same key as the dialog reads it: <<list>> or <<>>
    inflight,        \* the message handed to dialog.messageChild and not yet dispatched
    outMsg,          \* the message the opener built for dialog.messageChild: <<message>>, or <<>>
    dpc,             \* position of the dialog's initialize()
    dlgFavorites,    \* dialog: component state `favorites`
    incomingRestIds, \* dialog: component state `incomingRestIds`
    received,        \* messages the dialog's handler was called with
    lost,            \* messages dispatched to a window that had no listener
    lib,             \* the document library as the server holds it (see Library)
    bulkFailed,      \* task pane: component state `bulkFailed` (its restIds)
    retryIds,        \* task pane: bulkFailed as it was when the retry run in progress began
    target,          \* task pane: the driveId and folderPath arguments of the run in progress
    origin,          \* task pane: `target` of the run in which the ids in bulkFailed first failed
    loading,         \* dialog: component state `loading`
    budget,          \* failing answers the server may still give: <<k>>, or <<>> for any number
    rpc,             \* position of the handler that runs the archive ("opening": none may run yet)
    restIds,         \* the list the bulk loop iterates over
    i,               \* loop index (0-based, as in the code)
    success,         \* loop counter `success`
    failed,          \* loop list `failed` (the restIds pushed by the catch)
    mpc,             \* archiveMessageByRestId: "none" | "active" | "returned" | "thrown"
    cur,             \* the restId archiveMessageByRestId was called with
    call,            \* the HTTP call in progress and its withRetry frame
    msg,             \* the message metadata returned by the metadata GET
    found,           \* number of list items returned by the de-dupe lookup
    total,           \* blob.size of the downloaded MIME
    offset,          \* uploadInChunksWithRetry: `offset`
    fields,          \* dialog: column names returned by getDriveListFieldNames
    siteOk,          \* dialog: the drive GET returned a non-empty siteId
    uploadUrl,       \* session.uploadUrl of the current message (0: no session yet)
    put,             \* the chunk PUT built last for the current message: <<request>>, or <<>>
    sent,            \* the chunk PUTs of the current message, one per loop iteration
    sessionPath,     \* drive path in the createUploadSession URL of the current message
    payload,         \* field names in the body of the current message's fields PATCH
    created,         \* library item created by the current message's upload (0: none)
    resolved,        \* library item returned by the resolve GET (0: none)
    \* history (written, never read, by the actions)
    attempted,       \* restIds archiveMessageByRestId was called with, in call order
    open,            \* restIds whose pipeline was started and has not settled
    threw,           \* restIds whose pipeline threw
    log,             \* steps of the current message whose first request was issued
    outcome,         \* per step of the current message: "none" | "ok" | "failed"
    lastDone         \* the message the caller handled last, and how it counted it

vars == <<ui, sel, hasToken, hasDrive, hasSite, hasFolder, availableFields, mailbox, nav,
          favorites, opener, ppc, completed, stored, dlgStored, inflight, outMsg, dpc,
          dlgFavorites, incomingRestIds, received, lost, lib, bulkFailed, retryIds, target, origin, loading, budget,
          rpc, restIds, i, success, failed, mpc, cur, call, msg, found, total,
          offset, fields, siteOk, uploadUrl, put, sent, sessionPath, payload, created,
          resolved, attempted, open, threw, log, outcome, lastDone>>

cfgVars  == <<ui, sel, hasToken, hasDrive, hasSite, hasFolder, availableFields, mailbox>>
navVars  == <<nav, favorites>>
openVars == <<opener, ppc, completed, stored, dlgStored, inflight, outMsg, dpc,
              dlgFavorites, incomingRestIds, received, lost>>
envVars  == <<cfgVars, navVars, openVars>>
reqVars  == <<uploadUrl, put, sent, sessionPath, payload, created, resolved>>
loopVars == <<restIds, i, success, failed>>
msgVars  == <<msg, found, total, offset, fields>>
histVars == <<attempted, open, threw, log, outcome, lastDone>>

-----------------------------------------------------------------------------
(* Bounds of the model *)

\* largest selection explored with an unrestricted server
MaxSmallRun == 3
\* largest selection explored at all (one more than the cap of ten)
MaxSelected == 11
\* failing answers the server gives in a run over a large selection
CapFaults == 1
\* largest number of full 5 MiB chunks in a downloaded MIME
MaxChunks == 1
\* largest selection explored with a tracked library
MaxLibRun == 2
\* failing answers the server gives while the library is tracked
LibFaults == 3
\* number of files in the tracked library after which no further run is started
MaxFiles == 2
\* largest selection in the runs whose termination is explored
MaxLiveRun == 2
\* largest selection in Outlook when the dialog is opened
MaxOpenSel == 2
\* size of the selection in the runs between which the user navigates
MaxNavRun == 2
\* failing answers the server gives in those runs
NavFaults == 1

-----------------------------------------------------------------------------
(* Program constants *)

DefaultMax == 4
DefaultBaseDelayMs == 500
BulkCap == 10
chunkSize == 5 * 1024 * 1024

FIELD_FROM == "From"
FIELD_FROM_ADDRESS == "From_x002d_Address"
FIELD_RECEIVED == "Received"
FIELD_ATTACHMENT == "Attachment"
FIELD_ORIGINAL_LINK == "OriginalMessageLink"
FIELD_INTERNET_ID == "InternetMessageId"

-----------------------------------------------------------------------------
(* Values *)

\* JavaScript `undefined` where a number is expected: every comparison of it
\* with a status (=== 429, >= 500, <= 599) is false, as for this value.
Undef == -1
\* fetch() rejected: there is no response and so no status
NetFail == 0
\* budget of a server that may fail any number of times; <<k>> allows k failing answers
Unlimited == <<>>

\* statuses a thrown error can carry in e.status or e.response.status
ErrStatuses == {Undef, 404, 429, 499, 500, 503, 599, 600}
ErrorShapes == [status : ErrStatuses, response : ErrStatuses]

\* answers of the server to one request
Responses == {NetFail, 200, 202, 404, 429, 503}

NoMsg == [imid |-> FALSE, webLink |-> FALSE]

\* the four kinds of message, in the order a mailbox cycles through them
ShapeCycle == << [imid |-> TRUE,  webLink |-> TRUE],  [imid |-> FALSE, webLink |-> TRUE],
                 [imid |-> TRUE,  webLink |-> FALSE], [imid |-> FALSE, webLink |-> FALSE] >>

\* mailboxes: message k is of kind (k + s) mod 4.  A message keeps its
\* internetMessageId and webLink: every fetch of one restId returns the same.
Mailboxes == { [k \in 1..MaxSelected |-> ShapeCycle[((k + s) % 4) + 1]] : s \in 0..3 }

\* msg.subject, as a sequence of characters: the subjects of messages 1 and 2
\* differ in one character, every other message has a subject of its own
SubjectOf(id) ==
    IF id = 1 THEN <<"a", "/", "b">>
    ELSE IF id = 2 THEN <<"a", ":", "b">>
    ELSE <<"m", ToString(id)>>

\* the folder the user chose: its drive-item id and its folder names from the root
ChosenFolder == [id |-> "01FOLDERID", path |-> <<"Clients", "Acme">>]

\* selectedDriveId === null, or a driveId that is empty
NoDrive == ""
\* the DriveId of the library profiles the user can open
LibraryDrives == {"b!lib1", "b!lib2"}

\* the names of the folders listed under the folder with these names from the
\* root (driveItems after the folder was opened); every library has the same tree
FolderRows(stack) ==
    IF stack = <<>> THEN {"Clients"}
    ELSE IF stack = <<"Clients">> THEN {"Acme"}
    ELSE {}

\* a task pane that has a library open shows the folder above the chosen one;
\* one that has none shows no rows
NavAt(drive) == [drive |-> drive, stack |-> IF drive = NoDrive THEN <<>> ELSE <<"Clients">>]

\* entries of localStorage "flowpoint:favorites": a favorite of the chosen folder
\* stored without a driveId, and a favorite in the second library
FavoriteNoDrive == [id |-> "01FOLDERID", driveId |-> NoDrive, path |-> <<"Clients", "Acme">>]
FavoriteLib2 == [id |-> "01PROJECTS", driveId |-> "b!lib2", path |-> <<"Projects">>]

NoTarget == [drive |-> NoDrive, path |-> <<>>]

BlobSizes == {0, 1} \cup {k * chunkSize : k \in 1..MaxChunks}
                    \cup {k * chunkSize + 1 : k \in 1..MaxChunks}

ColumnChoices == { {"Title"},
                   {"Title", FIELD_INTERNET_ID},
                   {"Title", FIELD_FROM, FIELD_ORIGINAL_LINK} }

Steps == {"site", "meta", "dedupe", "mime", "session", "chunk", "resolve",
          "columns", "patch"}

NoOutcome == [s \in Steps |-> "none"]
NoDone == [id |-> 0, dup |-> FALSE, counted |-> "none"]

Min(a, b) == IF a < b THEN a ELSE b

-----------------------------------------------------------------------------
(* The document library, as Microsoft Graph keeps it *)

\* lib.files is the sequence of files in upload order.  A file has the drive
\* path it was uploaded to, the number n of the suffix its name got (0: none),
\* the message whose upload created it and the InternetMessageId field of its
\* list item (0: empty, else the message the id belongs to).
\* A library that is not tracked answers lookups and resolves in any way.
Untracked == [tracked |-> FALSE, files |-> <<>>]
EmptyLibrary == [tracked |-> TRUE, files |-> <<>>]

SamePath(files, path) == {k \in DOMAIN files : files[k].path = path}

\* the last byte of an upload session arrived: "@microsoft.graph.conflictBehavior":
\* "rename" keeps a file that has the name and stores the new one under a suffixed name
libAfterUpload(l, path, id) ==
    IF ~l.tracked THEN l
    ELSE [l EXCEPT !.files = Append(@, [path |-> path,
                                        n |-> Cardinality(SamePath(l.files, path)),
                                        by |-> id, imid |-> 0])]

\* GET .../root:/path answers with the file that has exactly this name, if any
itemAtPath(l, path) ==
    IF \E k \in SamePath(l.files, path) : l.files[k].n = 0
    THEN CHOOSE k \in SamePath(l.files, path) : l.files[k].n = 0
    ELSE 0

\* PATCH .../items/{id}/listItem/fields answered 2xx: the fields are stored
libAfterPatch(l, item, keys, id) ==
    IF l.tracked /\ item # 0 /\ FIELD_INTERNET_ID \in keys
    THEN [l EXCEPT !.files[item].imid = id]
    ELSE l

\* GET .../list/items?$filter=fields/InternetMessageId eq '...'&$top=1: the
\* possible numbers of items in the answer
lookupResults(l, id) ==
    IF ~l.tracked THEN 0..1
    ELSE IF \E k \in DOMAIN l.files : l.files[k].imid = id THEN {1} ELSE {0}

\* answers the server can give: a path that names no file is not resolved
ServerCan(l, step, path, resp) ==
    (l.tracked /\ step = "resolve" /\ itemAtPath(l, path) = 0) => (resp < 200 \/ resp > 299)

\* ... and a request to /drives/null/... is not answered 2xx
DriveCan(u, t, step, resp) ==
    (u = "taskpane" /\ t.drive = NoDrive /\ step \in {"session", "resolve", "patch"})
        => (resp < 200 \/ resp > 299)

\* no dialog is being opened: the archive runs start in a dialog that has its
\* list of identifiers, or in the task pane
NoOpening ==
    /\ opener = "none" /\ ppc = "none" /\ completed = 0
    /\ stored = <<>> /\ dlgStored = <<>> /\ inflight = <<>> /\ outMsg = <<>>
    /\ dpc = "none" /\ dlgFavorites = <<>> /\ incomingRestIds = <<>>
    /\ received = <<>> /\ lost = <<>>

-----------------------------------------------------------------------------
(* withRetry *)

\* const status = e?.status ?? e?.response?.status;
ErrStatus(e) == IF e.status # Undef THEN e.status ELSE e.response

Retriable_NoUpperBound(status) == status = 429 \/ status >= 500
\* const retriable = status === 429 || (status >= 500 && status <= 599);
Retriable(status) == status = 429 \/ (status >= 500 /\ status <= 599)

\* let attempt = 0, delay = baseDelayMs; while (true) { try { return await fn(); }
withRetry_enter(step, wrapped, baseDelayMs) ==
    [step |-> step, wrapped |-> wrapped, pc |-> "pending", attempt |-> 0,
     delay |-> baseDelayMs, calls |-> 1, waits |-> <<>>, resp |-> 200,
     err |-> <<>>, thrown |-> <<>>]

\* return await fn();
withRetry_return(c, resp) == [c EXCEPT !.pc = "returned", !.resp = resp, !.err = <<>>]

withRetry_catch_OneMore(c, e, resp, max) ==
    IF ~Retriable(ErrStatus(e)) \/ c.attempt + 1 > max
    THEN [c EXCEPT !.attempt = c.attempt + 1, !.pc = "thrown", !.resp = resp,
                   !.err = <<e>>, !.thrown = <<e>>]
    ELSE [c EXCEPT !.attempt = c.attempt + 1, !.pc = "sleeping", !.resp = resp,
                   !.err = <<e>>, !.waits = Append(@, c.delay)]
withRetry_catch_NoLimit(c, e, resp, max) ==
    IF ~Retriable(ErrStatus(e))
    THEN [c EXCEPT !.attempt = c.attempt + 1, !.pc = "thrown", !.resp = resp,
                   !.err = <<e>>, !.thrown = <<e>>]
    ELSE [c EXCEPT !.attempt = c.attempt + 1, !.pc = "sleeping", !.resp = resp,
                   !.err = <<e>>, !.waits = Append(@, c.delay)]
\* catch (e) { ...; attempt++; if (!retriable || attempt >= max) throw e;
\*             await new Promise(r => setTimeout(r, delay)); ... }
withRetry_catch(c, e, resp, max) ==
    LET status == ErrStatus(e)
        retriable == Retriable(status)
        attempt == c.attempt + 1
    IN  IF ~retriable \/ attempt >= max
        THEN [c EXCEPT !.attempt = attempt, !.pc = "thrown", !.resp = resp,
                       !.err = <<e>>, !.thrown = <<e>>]
        ELSE [c EXCEPT !.attempt = attempt, !.pc = "sleeping", !.resp = resp,
                       !.err = <<e>>, !.waits = Append(@, c.delay)]

withRetry_wake_Linear(c) ==
    [c EXCEPT !.delay = c.delay + DefaultBaseDelayMs, !.pc = "pending", !.calls = @ + 1]
\* the timer fired: delay *= 2; and the loop calls fn again
withRetry_wake(c) ==
    [c EXCEPT !.delay = c.delay * 2, !.pc = "pending", !.calls = @ + 1]

\* a call that is not wrapped in withRetry: the error propagates at once
plain_throw(c, e, resp) ==
    [c EXCEPT !.pc = "thrown", !.resp = resp, !.err = <<e>>, !.thrown = <<e>>]

NoCall == [withRetry_enter("site", FALSE, DefaultBaseDelayMs) EXCEPT !.pc = "none", !.calls = 0]

-----------------------------------------------------------------------------
(* The bare retry harness: withRetry around an arbitrary fn *)

InitRetry ==
    /\ ui = "none" /\ sel = <<>> /\ hasToken = FALSE /\ hasDrive = FALSE
    /\ hasSite = FALSE /\ hasFolder = FALSE /\ availableFields = {}
    /\ mailbox = <<>> /\ lib = Untracked
    /\ nav = NavAt(NoDrive) /\ favorites = {}
    /\ NoOpening
    /\ bulkFailed = <<>> /\ retryIds = <<>>
    /\ target = NoTarget /\ origin = NoTarget /\ loading = FALSE
    /\ budget = Unlimited /\ rpc = "harness"
    /\ restIds = <<>> /\ i = 0 /\ success = 0 /\ failed = <<>>
    /\ mpc = "none" /\ cur = 0
    /\ call = withRetry_enter("meta", TRUE, DefaultBaseDelayMs)
    /\ msg = NoMsg /\ found = 0 /\ total = 0 /\ offset = 0 /\ fields = {}
    /\ siteOk = FALSE
    /\ uploadUrl = 0 /\ put = <<>> /\ sent = <<>> /\ sessionPath = <<>> /\ payload = {}
    /\ created = 0 /\ resolved = 0
    /\ attempted = <<>> /\ open = {} /\ threw = {} /\ log = <<>>
    /\ outcome = NoOutcome /\ lastDone = NoDone

\* fn resolves
FnReturns ==
    /\ rpc = "harness" /\ call.pc = "pending"
    /\ call' = withRetry_return(call, NetFail)
    /\ UNCHANGED <<envVars, lib, bulkFailed, retryIds, target, origin, loading, budget, rpc, loopVars, mpc, cur, msgVars, reqVars, siteOk, histVars>>

\* fn rejects with some error
FnThrows ==
    /\ rpc = "harness" /\ call.pc = "pending"
    /\ \E e \in ErrorShapes :
          call' = withRetry_catch(call, e, NetFail, DefaultMax)
    /\ UNCHANGED <<envVars, lib, bulkFailed, retryIds, target, origin, loading, budget, rpc, loopVars, mpc, cur, msgVars, reqVars, siteOk, histVars>>

\* the setTimeout of the back-off fires
TimerFires ==
    /\ call.pc = "sleeping"
    /\ call' = withRetry_wake(call)
    /\ UNCHANGED <<envVars, lib, bulkFailed, retryIds, target, origin, loading, budget, rpc, loopVars, mpc, cur, msgVars, reqVars, siteOk, histVars>>

NextRetry == FnReturns \/ FnThrows \/ TimerFires

SpecRetry == InitRetry /\ [][NextRetry]_vars

-----------------------------------------------------------------------------
(* The HTTP calls of the pipeline *)

\* Response.ok
HttpOk(resp) == resp >= 200 /\ resp <= 299

NoStatusError == [status |-> Undef, response |-> Undef]
StatusError(resp) == [status |-> resp, response |-> Undef]

Wrapped_PatchBare(u, s) == s # "patch" /\ (u = "taskpane" \/ s \in {"mime", "session", "chunk"})
\* whether the call of step s is made inside withRetry
\*   task pane: graphGET wraps itself; download, session, PUT, resolve, PATCH are wrapped
\*   dialog:    graphGET is a bare fetch; download, session, PUT are wrapped; PATCH is bare
Wrapped(u, s) ==
    IF u = "taskpane" THEN TRUE ELSE s \in {"mime", "session", "chunk"}

\* what fn makes of the server's answer: it returns, or throws an error
FnOutcome(u, s, resp) ==
    IF resp = NetFail
    THEN [ok |-> FALSE, err |-> NoStatusError]          \* fetch() itself rejected
    ELSE IF u = "dialog" /\ s = "patch"
    THEN [ok |-> TRUE, err |-> NoStatusError]           \* await fetch(...): status not read
    ELSE IF HttpOk(resp) \/ (s = "chunk" /\ resp \in {201, 202})
    THEN [ok |-> TRUE, err |-> NoStatusError]
    ELSE IF u = "dialog" /\ s \in {"mime", "session"}
    THEN [ok |-> FALSE, err |-> NoStatusError]          \* throw new Error(`... ${r.status}`)
    ELSE [ok |-> FALSE, err |-> StatusError(resp)]      \* err.status = r.status; throw err

SliceSize_NoMin(off, tot) == chunkSize
\* blob.slice(offset, Math.min(offset + chunkSize, total)).size
SliceSize(off, tot) == Min(off + chunkSize, tot) - off

offsetAfter_Always(off, tot, step, settled) ==
    IF step = "chunk" THEN off + SliceSize(off, tot) ELSE off
\* offset += slice.size; it follows `await withRetry(PUT)` and so runs only when
\* the PUT of the chunk returned
offsetAfter(off, tot, step, settled) ==
    IF step = "chunk" /\ settled = "returned" THEN off + SliceSize(off, tot) ELSE off

\* the PUT of the chunk at `off`: its URL and its Content-Length / Content-Range
\*   const end = offset + slice.size - 1;  `bytes ${offset}-${end}/${total}`
chunkRequest(url, off, tot) ==
    [url |-> url, offset |-> off, end |-> off + SliceSize(off, tot) - 1, total |-> tot,
     length |-> SliceSize(off, tot)]

\* characters outside the class of subject.replace(/[^a-z0-9\-_. ]/gi, "_"); the
\* dialog's copy has the class [^a-z0-9\\-_. ], which holds no "-"
UnsafeChars(u) == IF u = "dialog" THEN {"/", ":", "-"} ELSE {"/", ":"}

\* `${(subject || "Email").replace(..., "_")}.eml`
safeFileNameFromSubject(u, subject) ==
    LET s == IF subject = <<>> THEN <<"E", "m", "a", "i", "l">> ELSE subject
    IN  [k \in 1..Len(s) |-> IF s[k] \in UnsafeChars(u) THEN "_" ELSE s[k]] \o <<".eml">>

\* the folderPath argument archiveMessageByRestId is called with
\*   task pane: the folderPath its caller was given (folder names joined by "/")
\*   dialog:    selectedFolder, which holds the value f.id of the folder <select>
folderPathArg(u, folder, t) == IF u = "dialog" THEN <<folder.id>> ELSE t.path

\* encodeDrivePathForGraph(folderPath ? `${folderPath}/${fileName}` : fileName),
\* as the sequence of its segments
encodedPath(folderPath, fileName) == Append(folderPath, fileName)

\* uploadBlobToFolderId: the PUTs of its while loop, from `offset` on
\*   const end = Math.min(offset + chunkSize, total);
\*   "Content-Length": String(end - offset), `bytes ${offset}-${end - 1}/${total}`
\*   offset = end;   (`off` is the loop's `offset`)
RECURSIVE uploadBlobToFolderId_puts(_, _, _)
uploadBlobToFolderId_puts(url, off, tot) ==
    IF off < tot
    THEN LET end == Min(off + chunkSize, tot)
         IN  <<[url |-> url, offset |-> off, end |-> end - 1, total |-> tot,
                length |-> end - off]>> \o uploadBlobToFolderId_puts(url, end, tot)
    ELSE <<>>

\* if (!internetMessageId) return false; if (!availableFields.has(FIELD_INTERNET_ID)) return false;
existsNeedsLookup(m, avail) == m.imid /\ FIELD_INTERNET_ID \in avail

existsResult_MoreThanOne(cnt) == cnt > 1
\* return (data.value || []).length > 0;
existsResult(cnt) == cnt > 0

\* the keys of the dialog's `patch` object
PatchKeys(cols, m) ==
    (cols \cap {FIELD_FROM_ADDRESS, FIELD_FROM, FIELD_RECEIVED, FIELD_ATTACHMENT})
    \cup (IF FIELD_ORIGINAL_LINK \in cols /\ m.webLink THEN {FIELD_ORIGINAL_LINK} ELSE {})
    \cup (IF FIELD_INTERNET_ID \in cols /\ m.imid THEN {FIELD_INTERNET_ID} ELSE {})

CoreFields == {FIELD_FROM, FIELD_FROM_ADDRESS, FIELD_RECEIVED, FIELD_ATTACHMENT}

\* the keys of the task pane's `payload`: the keys of fieldsToPatch that are in `allowed`
PayloadKeys(avail, m) ==
    LET fieldsToPatch ==
            CoreFields
            \cup (IF FIELD_ORIGINAL_LINK \in avail /\ m.webLink THEN {FIELD_ORIGINAL_LINK} ELSE {})
            \cup (IF FIELD_INTERNET_ID \in avail /\ m.imid THEN {FIELD_INTERNET_ID} ELSE {})
        allowed == CoreFields \cup avail
    IN  fieldsToPatch \cap allowed

OnThrown_AlwaysThrows(s) == "THROW"
OnThrown_ResolveSwallowed(s) ==
    IF s = "dedupe" THEN "mime" ELSE IF s = "resolve" THEN "patch" ELSE "THROW"
\* a call threw for good: existsByInternetMessageId catches its own lookup
\* (catch (e) { ...; return false; }), nothing in archiveMessageByRestId catches the rest
OnThrown(s) == IF s = "dedupe" THEN "mime" ELSE "THROW"

\* archiveMessageByRestId: what follows the settled call of step s.
\* The result is the next step, or "RETURN" / "THROW" for the whole pipeline.
NextStep(u, s, settled, m, cnt, tot, off, cols, avail) ==
    IF settled = "thrown"
    THEN OnThrown(s)
    ELSE CASE s = "meta"    -> IF u = "taskpane" /\ existsNeedsLookup(m, avail)
                               THEN "dedupe" ELSE "mime"
           [] s = "dedupe"  -> IF existsResult(cnt) THEN "RETURN" ELSE "mime"
           [] s = "mime"    -> "session"
           [] s = "session" -> IF off < tot THEN "chunk" ELSE "resolve"
           [] s = "chunk"   -> IF off < tot THEN "chunk" ELSE "resolve"
           [] s = "resolve" -> IF u = "taskpane" THEN "patch" ELSE "columns"
           [] s = "columns" -> IF PatchKeys(cols, m) # {} THEN "patch" ELSE "RETURN"
           [] s = "patch"   -> "RETURN"
           [] OTHER         -> "THROW"

\* the server answers the pending request and fn (and withRetry's catch) run
Respond ==
    /\ rpc \in {"site", "single", "loop"}
    /\ call.pc = "pending"
    /\ \E resp \in Responses :
          LET out == FnOutcome(ui, call.step, resp)
              \* the PUT that was accepted carried the last byte of the blob
              lastChunk == /\ out.ok /\ call.step = "chunk"
                           /\ offset + SliceSize(offset, total) = total
          IN  /\ IF HttpOk(resp) \/ budget = Unlimited THEN TRUE ELSE budget[1] > 0
              /\ ServerCan(lib, call.step, sessionPath, resp)
              /\ DriveCan(ui, target, call.step, resp)
              /\ budget' = IF HttpOk(resp) \/ budget = Unlimited THEN budget
                            ELSE <<budget[1] - 1>>
              /\ call' = IF out.ok THEN withRetry_return(call, resp)
                         ELSE IF call.wrapped
                              THEN withRetry_catch(call, out.err, resp, DefaultMax)
                              ELSE plain_throw(call, out.err, resp)
              /\ msg'    = IF out.ok /\ call.step = "meta" THEN mailbox[cur] ELSE msg
              /\ found'  \in IF out.ok /\ call.step = "dedupe"
                               THEN lookupResults(lib, cur) ELSE {found}
              /\ total'  \in IF out.ok /\ call.step = "mime"    THEN BlobSizes ELSE {total}
              /\ fields' \in IF out.ok /\ call.step = "columns" THEN ColumnChoices ELSE {fields}
              /\ siteOk' \in IF out.ok /\ call.step = "site"    THEN BOOLEAN ELSE {siteOk}
              /\ uploadUrl' = IF out.ok /\ call.step = "session" THEN cur ELSE uploadUrl
              /\ lib' = IF lastChunk
                         THEN libAfterUpload(lib, sessionPath, cur)
                         ELSE IF call.step = "patch" /\ HttpOk(resp)
                         THEN libAfterPatch(lib, resolved, payload, cur)
                         ELSE lib
              /\ created' = IF lastChunk /\ lib.tracked THEN Len(lib.files) + 1 ELSE created
              /\ resolved' = IF out.ok /\ call.step = "resolve"
                              THEN itemAtPath(lib, sessionPath) ELSE resolved
    /\ UNCHANGED <<envVars, bulkFailed, retryIds, target, origin, loading, rpc, loopVars, mpc, cur, offset, put, sent,
                   sessionPath, payload, histVars>>

\* archiveMessageByRestId(id, ...) is called: everything up to its first await
StartMsg(id) ==
    /\ mpc' = "active"
    /\ cur' = id
    /\ call' = withRetry_enter("meta", Wrapped(ui, "meta"), DefaultBaseDelayMs)
    /\ msg' = NoMsg /\ found' = 0 /\ total' = 0 /\ offset' = 0 /\ fields' = {}
    /\ uploadUrl' = 0 /\ put' = <<>> /\ sent' = <<>> /\ sessionPath' = <<>> /\ payload' = {}
    /\ created' = 0 /\ resolved' = 0
    /\ attempted' = Append(attempted, id)
    /\ open' = open \cup {id}
    /\ log' = <<"meta">>
    /\ outcome' = NoOutcome

\* archiveMessageByRestId resumes after the call of the current step settled
Continue ==
    /\ mpc = "active"
    /\ call.pc \in {"returned", "thrown"}
    /\ LET settled == call.pc
           off2 == offsetAfter(offset, total, call.step, settled)
           nxt == NextStep(ui, call.step, settled, msg, found, total, off2, fields,
                           availableFields)
       IN  /\ offset' = off2
           /\ sessionPath' =
                 IF nxt = "session"
                 THEN encodedPath(folderPathArg(ui, ChosenFolder, target),
                                  safeFileNameFromSubject(ui, SubjectOf(cur)))
                 ELSE sessionPath
           /\ put'  = IF nxt = "chunk" THEN <<chunkRequest(uploadUrl, off2, total)>> ELSE put
           /\ sent' = IF nxt = "chunk" THEN Append(sent, chunkRequest(uploadUrl, off2, total))
                      ELSE sent
           /\ payload' = IF nxt # "patch" THEN payload
                         ELSE IF ui = "taskpane" THEN PayloadKeys(availableFields, msg)
                         ELSE PatchKeys(fields, msg)
           /\ outcome' = [outcome EXCEPT
                            ![call.step] = IF settled = "returned" THEN "ok" ELSE "failed"]
           /\ IF nxt = "RETURN"
              THEN /\ mpc' = "returned"
                   /\ open' = open \ {cur}
                   /\ UNCHANGED <<call, threw, log>>
              ELSE IF nxt = "THROW"
              THEN /\ mpc' = "thrown"
                   /\ open' = open \ {cur}
                   /\ threw' = threw \cup {cur}
                   /\ UNCHANGED <<call, log>>
              ELSE /\ call' = withRetry_enter(nxt, Wrapped(ui, nxt), DefaultBaseDelayMs)
                   /\ log' = IF nxt = call.step THEN log ELSE Append(log, nxt)
                   /\ UNCHANGED <<mpc, open, threw>>
    /\ UNCHANGED <<envVars, lib, bulkFailed, retryIds, target, origin, loading, budget, rpc, loopVars, cur, msg, found,
                   total, fields, siteOk, uploadUrl, created, resolved, attempted, lastDone>>

-----------------------------------------------------------------------------
(* The handlers that run the pipeline *)

\* getSelectedMessageRestIds(): every selected item, or the current one, or none
getSelectedMessageRestIds(s) == s

SliceFirstTen_NoCap(ids) == ids
\* const restIds = ids.slice(0, 10);
SliceFirstTen(ids) == SubSeq(ids, 1, Min(BulkCap, Len(ids)))

bulkFailedAfterLoop_Kept(prev, f) == prev
\* setBulkFailed(failed);
bulkFailedAfterLoop(prev, f) == f

AwaitSettled_NoAwait(m) == TRUE
\* `await archiveMessageByRestId(...)`: the loop resumes when the pipeline settled
AwaitSettled(m) == m \in {"returned", "thrown"}

failedAfter_Dropped(f, id, m) == f
\* catch (e) { failed.push(id) }
failedAfter(f, id, m) == IF m = "returned" THEN f ELSE Append(f, id)

\* success++
successAfter(n, m) == IF m = "returned" THEN n + 1 ELSE n

\* the (driveId, folderPath) pairs handleArchiveToPath can be called with: the
\* upload icon of a favorite passes (fav.driveId, fav.path), the upload icon of a
\* folder row passes (selectedDriveId, pathForThisRow)
ArchiveTargets(n, favs) ==
    {[drive |-> f.driveId, path |-> f.path] : f \in favs}
    \cup {[drive |-> n.drive, path |-> Append(n.stack, name)] :
              name \in (IF n.drive = NoDrive THEN {} ELSE FolderRows(n.stack))}

\* task pane: handleArchiveToPath(driveId, folderPath), up to its first HTTP request
HandleArchiveToPath ==
    /\ ui = "taskpane" /\ rpc = "idle"
    /\ \E t \in ArchiveTargets(nav, favorites) : target' = t
    /\ IF ~hasToken \/ target'.drive = NoDrive \/ ~hasSite
       THEN /\ rpc' = "failed"
            /\ UNCHANGED <<loopVars, mpc, cur, call, msgVars, reqVars, histVars>>
       ELSE LET ids == getSelectedMessageRestIds(sel)
            IN  IF Len(ids) <= 1
                THEN IF ids = <<>>
                     THEN /\ rpc' = "failed"              \* "No email selected."
                          /\ UNCHANGED <<loopVars, mpc, cur, call, msgVars, reqVars, histVars>>
                     ELSE /\ rpc' = "single"
                          /\ StartMsg(ids[1])
                          /\ UNCHANGED <<loopVars, threw, lastDone>>
                ELSE /\ rpc' = "loop"
                     /\ restIds' = ids /\ i' = 0 /\ success' = 0 /\ failed' = <<>>
                     /\ StartMsg(ids[1])
                     /\ UNCHANGED <<threw, lastDone>>
    /\ UNCHANGED <<envVars, lib, bulkFailed, retryIds, origin, loading, budget, siteOk>>

\* task pane, one message: the await of archiveMessageByRestId settled
SingleDone ==
    /\ rpc = "single"
    /\ AwaitSettled(mpc)
    /\ rpc' = IF mpc = "returned" THEN "done" ELSE "failed"
    /\ mpc' = "none"
    /\ lastDone' = [id |-> cur, dup |-> found > 0,
                    counted |-> IF mpc = "returned" THEN "success" ELSE "failed"]
    /\ UNCHANGED <<envVars, lib, bulkFailed, retryIds, target, origin, loading, budget, loopVars, cur, call, msgVars, reqVars, siteOk,
                   attempted, open, threw, log, outcome>>

\* dialog, handleBulkArchive: } finally { setLoading(false); }
loadingAfter(l, ended) == IF ended THEN FALSE ELSE l

\* dialog: handleBulkArchive(), up to its first await
HandleBulkArchive ==
    /\ ui = "dialog" /\ rpc = "idle"
    /\ IF ~hasDrive \/ ~hasFolder \/ Len(sel) = 0
       THEN /\ rpc' = "rejected"                      \* the returns that precede the try
            /\ UNCHANGED <<restIds, call, loading>>
       ELSE /\ restIds' = SliceFirstTen(sel)
            /\ loading' = TRUE                        \* setLoading(true)
            /\ IF hasToken
               THEN /\ rpc' = "site"
                    /\ call' = withRetry_enter("site", Wrapped(ui, "site"), DefaultBaseDelayMs)
               ELSE /\ rpc' = "token"
                    /\ UNCHANGED call
    /\ UNCHANGED <<envVars, lib, bulkFailed, retryIds, target, origin, budget, i, success, failed,
                   mpc, cur, msgVars, reqVars, siteOk, histVars>>

\* dialog: `await getAccessToken()` settles
TokenArrives ==
    /\ rpc = "token"
    /\ \E ok \in BOOLEAN :
          IF ok
          THEN /\ rpc' = "site"
               /\ call' = withRetry_enter("site", Wrapped(ui, "site"), DefaultBaseDelayMs)
          ELSE /\ rpc' = "failed"
               /\ UNCHANGED call
    /\ loading' = loadingAfter(loading, rpc' = "failed")
    /\ UNCHANGED <<envVars, lib, bulkFailed, retryIds, target, origin, budget, loopVars, mpc, cur,
                   msgVars, reqVars, siteOk, histVars>>

\* dialog: getSiteIdFromDrive settled; the loop starts or the outer catch runs
SiteResolved ==
    /\ rpc = "site"
    /\ call.pc \in {"returned", "thrown"}
    /\ IF call.pc = "returned" /\ siteOk
       THEN /\ rpc' = "loop"
            /\ i' = 0 /\ success' = 0 /\ failed' = <<>>
            /\ StartMsg(restIds[1])
            /\ UNCHANGED <<restIds, threw, lastDone>>
       ELSE /\ rpc' = "failed"
            /\ UNCHANGED <<loopVars, mpc, cur, call, msgVars, reqVars, histVars>>
    /\ loading' = loadingAfter(loading, rpc' = "failed")
    /\ UNCHANGED <<envVars, lib, bulkFailed, retryIds, target, origin, budget, siteOk>>

\* where the ids now in bulkFailed failed first: in this run when it was started
\* by handleArchiveToPath, in an earlier one when this run is a retry
originAfterLoop(prev, t, retried, f) ==
    IF f = <<>> THEN NoTarget ELSE IF retried = <<>> THEN t ELSE prev

\* the body of the for loop after `await archiveMessageByRestId(...)`, and the
\* next iteration up to its first request (or the end of the loop)
BulkLoopStep ==
    /\ rpc = "loop"
    /\ AwaitSettled(mpc)
    /\ success' = successAfter(success, mpc)
    /\ failed' = failedAfter(failed, cur, mpc)
    /\ lastDone' = [id |-> cur, dup |-> found > 0,
                    counted |-> IF mpc = "returned" THEN "success" ELSE "failed"]
    /\ i' = i + 1
    /\ IF i + 1 < Len(restIds)
       THEN /\ StartMsg(restIds[i + 2])
            /\ UNCHANGED <<rpc, threw>>
       ELSE /\ rpc' = "done"
            /\ mpc' = "none"
            /\ UNCHANGED <<cur, call, msgVars, reqVars, attempted, open, threw, log, outcome>>
    \* task pane, after the loop: setBulkFailed(failed)
    /\ bulkFailed' = IF ui = "taskpane" /\ i + 1 >= Len(restIds)
                      THEN bulkFailedAfterLoop(bulkFailed, failed') ELSE bulkFailed
    /\ origin' = IF ui = "taskpane" /\ i + 1 >= Len(restIds)
                  THEN originAfterLoop(origin, target, retryIds, failed') ELSE origin
    /\ loading' = IF ui = "dialog" THEN loadingAfter(loading, rpc' = "done") ELSE loading
    /\ UNCHANGED <<envVars, lib, retryIds, target, budget, restIds, siteOk>>

\* the handler returned and its status is on display: the user can click again.
\* Nothing but the component state (bulkFailed) and the library outlives the run.
NextRun ==
    /\ rpc \in {"done", "failed", "rejected"}
    /\ lib.tracked => Len(lib.files) < MaxFiles
    /\ rpc' = "idle"
    /\ retryIds' = <<>> /\ target' = NoTarget
    /\ restIds' = <<>> /\ i' = 0 /\ success' = 0 /\ failed' = <<>>
    /\ mpc' = "none" /\ cur' = 0 /\ call' = NoCall
    /\ msg' = NoMsg /\ found' = 0 /\ total' = 0 /\ offset' = 0 /\ fields' = {}
    /\ siteOk' = FALSE
    /\ uploadUrl' = 0 /\ put' = <<>> /\ sent' = <<>> /\ sessionPath' = <<>> /\ payload' = {}
    /\ created' = 0 /\ resolved' = 0
    /\ attempted' = <<>> /\ open' = {} /\ threw' = {} /\ log' = <<>>
    /\ outcome' = NoOutcome /\ lastDone' = NoDone
    /\ UNCHANGED <<envVars, lib, bulkFailed, origin, loading, budget>>

\* the arguments of the retry: selectedDriveId! and currentPath, as they are
\* when the button is clicked
retryTarget(n) == [drive |-> n.drive, path |-> n.stack]

failedIdsOf_Reversed(bf) == [k \in 1..Len(bf) |-> bf[Len(bf) + 1 - k]]
\* const failedIds = bulkFailed.map((f) => f.restId);
failedIdsOf(bf) == [k \in 1..Len(bf) |-> bf[k]]

\* task pane: the onClick of 'Retry Failed Uploads', up to its first HTTP request.
\* The button is rendered only while bulkFailed.length > 0.
RetryFailedUploads ==
    /\ ui = "taskpane" /\ rpc = "idle"
    /\ Len(bulkFailed) > 0
    /\ LET failedIds == failedIdsOf(bulkFailed)
       IN  /\ retryIds' = bulkFailed
           /\ bulkFailed' = <<>>                             \* setBulkFailed([])
           \* bulkArchiveMessagesSequential(failedIds, selectedDriveId!, currentPath)
           /\ target' = retryTarget(nav)
           /\ rpc' = "loop"
           /\ restIds' = failedIds /\ i' = 0 /\ success' = 0 /\ failed' = <<>>
           /\ StartMsg(failedIds[1])
    /\ UNCHANGED <<envVars, lib, origin, loading, budget, siteOk, threw, lastDone>>

-----------------------------------------------------------------------------
(* Task pane: navigation in the library browser *)

\* The archive handlers read selectedDriveId and folderStack when they are
\* called and never afterwards, so navigation during a run has the effect of the
\* same navigation right after it: it is explored between runs.

\* the onClick of a folder row: getDriveFolderItems returned and
\* setFolderStack([...folderStack, item]) ran (when the request fails the catch
\* logs the error and nothing changes)
OpenFolder ==
    /\ ui = "taskpane" /\ rpc = "idle"
    /\ hasToken /\ hasSite /\ nav.drive # NoDrive
    /\ \E name \in FolderRows(nav.stack) : nav' = [nav EXCEPT !.stack = Append(@, name)]
    /\ UNCHANGED <<cfgVars, favorites, openVars, lib, bulkFailed, retryIds, target, origin, loading,
                   budget, rpc, loopVars, mpc, cur, call, msgVars, reqVars, siteOk, histVars>>

\* the onClick of 'Back': newStack.pop(); setFolderStack(newStack) precedes the
\* request for the parent's items
NavigateBack ==
    /\ ui = "taskpane" /\ rpc = "idle"
    /\ hasToken /\ hasSite /\ nav.drive # NoDrive /\ nav.stack # <<>>
    /\ nav' = [nav EXCEPT !.stack = SubSeq(@, 1, Len(@) - 1)]
    /\ UNCHANGED <<cfgVars, favorites, openVars, lib, bulkFailed, retryIds, target, origin, loading,
                   budget, rpc, loopVars, mpc, cur, call, msgVars, reqVars, siteOk, histVars>>

\* handleLibraryOpen(profile), to its end:
\*   getSiteIdFromUrl throws: the catch sets selectedDriveId to null, folderStack stays
\*   a later await throws:    folderStack was emptied, the catch sets selectedDriveId to null
\*   else:                    selectedDriveId = profile.DriveId, folderStack = []
\* refreshAvailableFieldsForDrive replaces availableFields by the columns of the
\* opened library, or by the empty set when its request fails
HandleLibraryOpen ==
    /\ ui = "taskpane" /\ rpc = "idle"
    /\ hasToken
    /\ \E d \in LibraryDrives, end \in {"site", "items", "opened"} :
          /\ nav' = IF end = "site" THEN [nav EXCEPT !.drive = NoDrive]
                     ELSE IF end = "items" THEN [drive |-> NoDrive, stack |-> <<>>]
                     ELSE [drive |-> d, stack |-> <<>>]
          /\ availableFields' \in IF end = "site" THEN {availableFields}
                                   ELSE ColumnChoices \cup {{}}
    /\ UNCHANGED <<ui, sel, hasToken, hasDrive, hasSite, hasFolder, mailbox, favorites, openVars, lib,
                   bulkFailed, retryIds, target, origin, loading,
                   budget, rpc, loopVars, mpc, cur, call, msgVars, reqVars, siteOk, histVars>>

-----------------------------------------------------------------------------
(* Opening the dialog: the opener (task pane or ribbon command) and the dialog's initialize() *)

\* entries of "flowpoint:favorites": the task pane writes { id, name, driveId, path };
\* the dialog's FavoriteRef also allows folderId ("" stands for an absent property)
FavAcme == [id |-> "01FOLDERID", folderId |-> "", name |-> "Acme"]
FavProjects == [id |-> "01PROJECTS", folderId |-> "", name |-> "Projects"]
FavAcmeOld == [id |-> "", folderId |-> "01FOLDERID", name |-> "Acme (old)"]

\* what localStorage.getItem("flowpoint:favorites") returns: <<>> for null, else
\* <<the list the stored JSON text stands for>>
StoredValues ==
    {<<>>, << <<>> >>, << <<FavAcme>> >>, << <<FavAcme, FavProjects>> >>,
     << <<FavAcme, FavProjects, FavAcmeOld>> >>}

\* JSON.parse(localStorage.getItem("flowpoint:favorites") || "[]")
parseStored(st) == IF st = <<>> THEN <<>> ELSE st[1]

\* f.folderId || f.id
favKey(f) == IF f.folderId # "" THEN f.folderId ELSE f.id

\* Array.from(new Map(list.map(f => [f.folderId || f.id, f])).values()): a Map
\* keeps a key at the place of its first set() and the value of its last
uniqueByFolderId(list) ==
    LET firsts == SelectSeq([k \in 1..Len(list) |-> k],
                            LAMBDA k : \A j \in 1..(k - 1) : favKey(list[j]) # favKey(list[k]))
        lastOf(key) == CHOOSE j \in 1..Len(list) :
                           /\ favKey(list[j]) = key
                           /\ \A m \in (j + 1)..Len(list) : favKey(list[m]) # key
    IN  [k \in 1..Len(firsts) |-> list[lastOf(favKey(list[firsts[k]]))]]

\* A message is given by what JSON.parse makes of its text: an object with the
\* properties favorites and restIds, or an array.
\* task pane: JSON.stringify({ favorites: JSON.parse(stored || "[]"), restIds })
taskpanePayload(st, ids) ==
    [kind |-> "object", favorites |-> parseStored(st), restIds |-> ids, items |-> <<>>]
\* ribbon command: the text localStorage.getItem("flowpoint:favorites") || "[]" itself
ribbonPayload(st) ==
    [kind |-> "array", favorites |-> <<>>, restIds |-> <<>>, items |-> parseStored(st)]

\* Array.isArray(data?.favorites), Array.isArray(data?.restIds): an array has
\* neither property
hasFavoritesArray(data) == data.kind = "object"
hasRestIdsArray(data) == data.kind = "object"

\* the dialog's handler: if (Array.isArray(data?.favorites)) setFavorites(unique)
handlerFavorites(favs, data) ==
    IF hasFavoritesArray(data) THEN uniqueByFolderId(data.favorites) ELSE favs
\* if (Array.isArray(data?.restIds)) setIncomingRestIds(data.restIds)
handlerRestIds(ids, data) ==
    IF hasRestIdsArray(data) THEN data.restIds ELSE ids

pipeVars == <<lib, bulkFailed, retryIds, target, origin, budget, rpc, loopVars, mpc, cur, call,
              msgVars, reqVars, siteOk, histVars>>

\* openBulkArchiveDialog is called: displayDialogAsync throws or returns.
\* ribbon command: the finally block calls event.completed().
OpenBulkArchiveDialog ==
    /\ ppc = "start"
    /\ \E thrown \in BOOLEAN : ppc' = IF thrown THEN "threw" ELSE "calling"
    /\ completed' = IF opener = "ribbon" THEN completed + 1 ELSE completed
    /\ UNCHANGED <<cfgVars, navVars, opener, stored, dlgStored, inflight, outMsg, dpc,
                   dlgFavorites, incomingRestIds, received, lost, loading, pipeVars>>

\* the callback of displayDialogAsync runs
\*   status Failed: the ribbon command calls event.completed(); both return
\*   else: the dialog's page is loaded and its initialize() runs; the ribbon command
\*         builds its message and sets the timer, the task pane asks for the selection
DisplayDialogCallback ==
    /\ ppc = "calling"
    /\ \E ok \in BOOLEAN :
          IF ~ok
          THEN /\ ppc' = "failedOpen"
               /\ completed' = IF opener = "ribbon" THEN completed + 1 ELSE completed
               /\ UNCHANGED <<dpc, loading, outMsg>>
          ELSE /\ dpc' = "office"
               /\ loading' = TRUE                           \* useState(true)
               /\ ppc' = IF opener = "ribbon" THEN "timer" ELSE "selecting"
               /\ outMsg' = IF opener = "ribbon" THEN <<ribbonPayload(stored)>> ELSE outMsg
               /\ UNCHANGED completed
    /\ UNCHANGED <<cfgVars, navVars, opener, stored, dlgStored, inflight,
                   dlgFavorites, incomingRestIds, received, lost, pipeVars>>

\* task pane: getSelectedItemsAsync called back (restIds = the first ten selected,
\* else the open message if there is one, else none); the payload is built and
\* the timer is set
SelectionArrives ==
    /\ ppc = "selecting"
    /\ \E restIdsSent \in (IF Len(sel) > 0 THEN {SliceFirstTen(sel)} ELSE {<<>>, <<1>>}) :
          outMsg' = <<taskpanePayload(stored, restIdsSent)>>
    /\ ppc' = "timer"
    /\ UNCHANGED <<cfgVars, navVars, opener, completed, stored, dlgStored, inflight, dpc,
                   dlgFavorites, incomingRestIds, received, lost, loading, pipeVars>>

\* the opener's setTimeout (1200 ms, 2500 ms) fires: dialog.messageChild(payload)
ParentTimerFires ==
    /\ ppc = "timer"
    /\ inflight' = outMsg
    /\ ppc' = "sent"
    /\ UNCHANGED <<cfgVars, navVars, opener, completed, stored, dlgStored, outMsg, dpc,
                   dlgFavorites, incomingRestIds, received, lost, loading, pipeVars>>

\* dialog, initialize(): `await waitForOfficeReady()` resolves
OfficeReady ==
    /\ dpc = "office"
    /\ dpc' = "signin"
    /\ UNCHANGED <<cfgVars, navVars, opener, ppc, completed, stored, dlgStored, inflight, outMsg,
                   dlgFavorites, incomingRestIds, received, lost, loading, pipeVars>>

\* dialog, initialize(): `await getAccessToken()` settles; a rejection goes to
\* the catch and the finally
SignInSettles ==
    /\ dpc = "signin"
    /\ \E ok \in BOOLEAN :
          /\ dpc' = IF ok THEN "libs" ELSE "initFailed"
          /\ loading' = IF ok THEN loading ELSE FALSE
    /\ UNCHANGED <<cfgVars, navVars, opener, ppc, completed, stored, dlgStored, inflight, outMsg,
                   dlgFavorites, incomingRestIds, received, lost, pipeVars>>

\* dialog, initialize(): `await listDocumentLibraries()` settles; when it
\* resolves the favorites in the dialog's localStorage are taken as they are
\* and window.addEventListener("message", handler) registers the listener
LibrariesSettle ==
    /\ dpc = "libs"
    /\ \E ok \in BOOLEAN :
          /\ dpc' = IF ok THEN "listening" ELSE "initFailed"
          /\ dlgFavorites' = IF ok /\ dlgStored # <<>> THEN dlgStored[1] ELSE dlgFavorites
    /\ loading' = FALSE
    /\ UNCHANGED <<cfgVars, navVars, opener, ppc, completed, stored, dlgStored, inflight, outMsg,
                   incomingRestIds, received, lost, pipeVars>>

\* the message event is dispatched in the dialog's window: the listeners
\* registered at that moment are called; without one the message is gone
DispatchMessage ==
    /\ inflight # <<>>
    /\ inflight' = <<>>
    /\ IF dpc = "listening"
       THEN /\ dlgFavorites' = handlerFavorites(dlgFavorites, inflight[1])
            /\ incomingRestIds' = handlerRestIds(incomingRestIds, inflight[1])
            /\ received' = Append(received, inflight[1])
            /\ UNCHANGED lost
       ELSE /\ lost' = Append(lost, inflight[1])
            /\ UNCHANGED <<dlgFavorites, incomingRestIds, received>>
    /\ UNCHANGED <<cfgVars, navVars, opener, ppc, completed, stored, dlgStored, outMsg, dpc,
                   loading, pipeVars>>

-----------------------------------------------------------------------------
(* Specifications *)

IdsUpTo(n) == [k \in 1..n |-> k]

InitRun(sizes, b) ==
    /\ ui \in {"taskpane", "dialog"}
    /\ sel \in {IdsUpTo(n) : n \in sizes}
    /\ hasToken \in BOOLEAN
    /\ hasDrive \in BOOLEAN
    /\ hasSite \in (IF ui = "taskpane" THEN BOOLEAN ELSE {TRUE})
    /\ hasFolder \in (IF ui = "dialog" THEN BOOLEAN ELSE {TRUE})
    /\ availableFields \in (IF ui = "taskpane" THEN ColumnChoices ELSE {{}})
    /\ mailbox \in Mailboxes
    /\ NoOpening
    /\ bulkFailed = <<>> /\ retryIds = <<>>
    /\ target = NoTarget /\ origin = NoTarget /\ loading = FALSE
    /\ budget = b
    /\ rpc = "idle"
    /\ restIds = <<>> /\ i = 0 /\ success = 0 /\ failed = <<>>
    /\ mpc = "none" /\ cur = 0 /\ call = NoCall
    /\ msg = NoMsg /\ found = 0 /\ total = 0 /\ offset = 0 /\ fields = {}
    /\ siteOk = FALSE
    /\ uploadUrl = 0 /\ put = <<>> /\ sent = <<>> /\ sessionPath = <<>> /\ payload = {}
    /\ created = 0 /\ resolved = 0
    /\ attempted = <<>> /\ open = {} /\ threw = {} /\ log = <<>>
    /\ outcome = NoOutcome /\ lastDone = NoDone

\* the view of a task pane in which nobody navigates: the library is open at
\* the folder above the chosen one and there is no favorite, or no library is
\* open and the only upload icon is that of a favorite stored without driveId
InitView ==
    /\ nav = NavAt(IF ui = "taskpane" /\ hasDrive THEN "b!lib1" ELSE NoDrive)
    /\ favorites = IF ui = "taskpane" /\ ~hasDrive THEN {FavoriteNoDrive} ELSE {}

\* small selections, a server that may fail at will
Init == InitRun(0..MaxSmallRun, Unlimited) /\ InitView /\ lib = Untracked

\* selections around the cap of ten, a server that fails rarely
InitCap == InitRun(BulkCap..MaxSelected, <<CapFaults>>) /\ InitView /\ lib = Untracked

Next ==
    \/ HandleArchiveToPath
    \/ HandleBulkArchive
    \/ TokenArrives
    \/ SiteResolved
    \/ Respond
    \/ TimerFires
    \/ Continue
    \/ SingleDone
    \/ BulkLoopStep

Spec == Init /\ [][Next]_vars

\* the steps that need no user: a request in flight is answered, a timer that
\* was set fires, a settled promise resumes the code that awaits it
RunStep ==
    \/ TokenArrives
    \/ SiteResolved
    \/ Respond
    \/ TimerFires
    \/ Continue
    \/ SingleDone
    \/ BulkLoopStep

\* the runs of Spec over selections of up to MaxLiveRun messages, in an
\* environment that answers every request and fires every timer
InitLive == InitRun(0..MaxLiveRun, Unlimited) /\ InitView /\ lib = Untracked

SpecLive == InitLive /\ [][Next]_vars /\ WF_vars(RunStep)

\* a selection of ten or more is never archived through the one-message path
NextCap ==
    \/ HandleArchiveToPath
    \/ HandleBulkArchive
    \/ TokenArrives
    \/ SiteResolved
    \/ Respond
    \/ TimerFires
    \/ Continue
    \/ BulkLoopStep

SpecCap == InitCap /\ [][NextCap]_vars

\* small selections archived into an empty library that is tracked, run after
\* run, by a server that fails a few times
InitLib == InitRun(1..MaxLibRun, <<LibFaults>>) /\ InitView /\ lib = EmptyLibrary

NextLib ==
    \/ HandleArchiveToPath
    \/ HandleBulkArchive
    \/ TokenArrives
    \/ SiteResolved
    \/ Respond
    \/ TimerFires
    \/ Continue
    \/ SingleDone
    \/ BulkLoopStep
    \/ NextRun
    \/ RetryFailedUploads

SpecLib == InitLib /\ [][NextLib]_vars

\* the same runs against a library that is not tracked
InitRerun == InitRun(1..MaxLibRun, <<LibFaults>>) /\ InitView /\ lib = Untracked

SpecRerun == InitRerun /\ [][NextLib]_vars

\* the dialog is opened from the task pane or from the ribbon command.  The
\* dialog is a window of its own: it reads the localStorage of the opener, or,
\* where the browser partitions storage, one that has no such key.
InitOpen ==
    /\ ui = "dialog"
    /\ sel \in {IdsUpTo(n) : n \in 0..MaxOpenSel}
    /\ hasToken = FALSE /\ hasDrive = FALSE /\ hasSite = TRUE /\ hasFolder = FALSE
    /\ availableFields = {} /\ mailbox \in {mb \in Mailboxes : mb[1] = ShapeCycle[1]}
    /\ nav = NavAt(NoDrive) /\ favorites = {}
    /\ opener \in {"taskpane", "ribbon"} /\ ppc = "start" /\ completed = 0
    /\ stored \in StoredValues /\ dlgStored \in {stored, <<>>}
    /\ inflight = <<>> /\ outMsg = <<>>
    /\ dpc = "none" /\ dlgFavorites = <<>> /\ incomingRestIds = <<>>
    /\ received = <<>> /\ lost = <<>>
    /\ lib = Untracked
    /\ bulkFailed = <<>> /\ retryIds = <<>>
    /\ target = NoTarget /\ origin = NoTarget /\ loading = FALSE
    /\ budget = Unlimited /\ rpc = "opening"
    /\ restIds = <<>> /\ i = 0 /\ success = 0 /\ failed = <<>>
    /\ mpc = "none" /\ cur = 0 /\ call = NoCall
    /\ msg = NoMsg /\ found = 0 /\ total = 0 /\ offset = 0 /\ fields = {}
    /\ siteOk = FALSE
    /\ uploadUrl = 0 /\ put = <<>> /\ sent = <<>> /\ sessionPath = <<>> /\ payload = {}
    /\ created = 0 /\ resolved = 0
    /\ attempted = <<>> /\ open = {} /\ threw = {} /\ log = <<>>
    /\ outcome = NoOutcome /\ lastDone = NoDone

NextOpen ==
    \/ OpenBulkArchiveDialog
    \/ DisplayDialogCallback
    \/ SelectionArrives
    \/ ParentTimerFires
    \/ OfficeReady
    \/ SignInSettles
    \/ LibrariesSettle
    \/ DispatchMessage

SpecOpen == InitOpen /\ [][NextOpen]_vars

\* task pane: bulk runs and retries between which the user navigates, opens
\* another library or archives through a favorite
InitNav ==
    /\ InitRun(MaxNavRun..MaxNavRun, <<NavFaults>>)
    /\ ui = "taskpane" /\ hasToken /\ hasSite /\ hasDrive
    /\ nav = NavAt("b!lib1")
    /\ favorites \in {{}, {FavoriteLib2}}
    /\ lib = Untracked

NextNav ==
    \/ HandleArchiveToPath
    \/ Respond
    \/ TimerFires
    \/ Continue
    \/ BulkLoopStep
    \/ NextRun
    \/ RetryFailedUploads
    \/ OpenFolder
    \/ NavigateBack
    \/ HandleLibraryOpen

SpecNav == InitNav /\ [][NextNav]_vars

-----------------------------------------------------------------------------
(* Properties *)

StatusIs429or5xx(s) == s = 429 \/ (s >= 500 /\ s <= 599)

\* C1: withRetry calls fn again after a failure only when the error's status
\* (e.status, else e.response.status) is 429 or in 500..599; an error with any
\* other status, or with none, is rethrown at once and fn is not called again.
C1_RetryOnlyOn429Or5xx ==
    /\ [][call'.calls > call.calls =>
             (call.err # <<>> /\ StatusIs429or5xx(ErrStatus(call.err[1])))]_vars
    /\ [](call.err # <<>> /\ ~StatusIs429or5xx(ErrStatus(call.err[1])) =>
             (call.pc = "thrown" /\ call.thrown = call.err))
    /\ [][call.pc = "thrown" => call'.calls = call.calls]_vars

\* fn was called a second time, after an error whose status 503 was read from
\* e.response.status
C1_Witness ==
    /\ rpc = "harness" /\ call.calls = 2 /\ call.pc = "pending"
    /\ call.err = <<[status |-> Undef, response |-> 503]>>

\* C2: with max = 4 withRetry calls fn at most 4 times; it returns on the first
\* success and never calls fn afterwards; after 4 failures with a retriable status
\* it rethrows the error of the 4th call.
C2_AtMostFourCalls ==
    /\ [](call.calls <= 4)
    /\ [](call.calls = 4 => call.pc # "sleeping")
    /\ [](call.pc = "thrown" => call.thrown = call.err)
    /\ [](call.pc = "returned" => call.err = <<>> /\ call.thrown = <<>>)
    /\ [][call.pc = "returned" => call' = call]_vars

\* four calls failed with a retriable status and the fourth error was rethrown
C2_Witness ==
    /\ rpc = "harness" /\ call.pc = "thrown" /\ call.calls = 4
    /\ call.thrown = <<[status |-> 503, response |-> Undef]>>

\* C3: the wait before the k-th retry is 500 * 2^(k-1) ms (500, 1000, 2000), and
\* no wait follows the final failed attempt.
C3_ExponentialBackoff ==
    /\ Len(call.waits) <= 3
    /\ \A k \in 1..Len(call.waits) : call.waits[k] = 500 * 2^(k - 1)
    /\ call.pc = "sleeping" => Len(call.waits) = call.calls
    /\ call.pc \in {"pending", "returned", "thrown"} => Len(call.waits) = call.calls - 1

\* all three waits were made and the fourth failure was rethrown without a wait
C3_Witness ==
    /\ rpc = "harness" /\ call.pc = "thrown"
    /\ call.waits = <<500, 1000, 2000>>

\* C4: in the task pane every HTTP call of the per-message pipeline goes through
\* the retry wrapper: a call answered with 429 or 5xx settles only after 4 attempts.
C4_TaskPaneEveryCallRetried ==
    (ui = "taskpane" /\ call.pc \in {"returned", "thrown"} /\ StatusIs429or5xx(call.resp))
        => (call.pc = "thrown" /\ call.calls = 4)

\* the fields PATCH was answered with 429 four times and the message failed
C4_Witness ==
    /\ ui = "taskpane" /\ mpc = "thrown" /\ call.step = "patch"
    /\ call.calls = 4 /\ call.resp = 429

\* C5: in the dialog every HTTP call of the per-message pipeline that is answered
\* with 429 or 5xx is retried, up to 4 attempts, before the message fails.
C5_DialogEveryCallRetried ==
    (ui = "dialog" /\ mpc # "none" /\ call.pc \in {"returned", "thrown"}
        /\ StatusIs429or5xx(call.resp))
        => (call.pc = "thrown" /\ call.calls = 4)

\* C6: one bulk run runs the archive pipeline for at most ten identifiers.
C6_AtMostTenPerRun == Len(attempted) <= 10

\* C7: within a bulk run the messages are archived one after the other in list
\* order: a message's pipeline starts only after every earlier one has settled,
\* and every request in flight belongs to the one open pipeline.
C7_Sequential ==
    /\ Cardinality(open) <= 1
    /\ \A k \in 1..(Len(attempted) - 1) : attempted[k] \notin open
    /\ rpc = "loop" => attempted = SubSeq(restIds, 1, Len(attempted))
    /\ (mpc # "none" /\ call.pc \in {"pending", "sleeping"}) => open = {cur}

\* the third message's request is in flight, the first two pipelines have settled
C7_Witness ==
    /\ rpc = "loop" /\ attempted = <<1, 2, 3>> /\ open = {3}
    /\ call.pc = "pending" /\ call.step = "session"

ThrewInOrder(ids) == SelectSeq(ids, LAMBDA id : id \in threw)

\* C8: in a bulk run over n identifiers a failing message never stops the loop:
\* every identifier is attempted exactly once, and at the end
\* success + failed.length = n with failed the identifiers that threw, in order.
C8_PartialFailureTracking ==
    /\ rpc = "loop" =>
          /\ success + Len(failed) = i
          /\ failed = ThrewInOrder(SubSeq(restIds, 1, i))
    /\ attempted # <<>> /\ restIds # <<>> => rpc \in {"loop", "done"}
    /\ rpc = "done" /\ restIds # <<>> =>
          /\ attempted = restIds
          /\ success + Len(failed) = Len(restIds)
          /\ failed = ThrewInOrder(restIds)

\* a run over three messages ended with the first and the third failed
C8_Witness ==
    /\ rpc = "done" /\ restIds = <<1, 2, 3>>
    /\ success = 1 /\ failed = <<1, 3>>

StepRank(s) ==
    CASE s = "meta" -> 1 [] s = "dedupe" -> 2 [] s = "mime" -> 3 [] s = "session" -> 4
      [] s = "chunk" -> 5 [] s = "resolve" -> 6 [] s = "columns" -> 7 [] s = "patch" -> 8
      [] OTHER -> 0

StepsInOrder ==
    /\ \A j \in 1..(Len(log) - 1) : StepRank(log[j]) < StepRank(log[j + 1])
    /\ ui = "dialog" => \A j \in 1..Len(log) : log[j] # "dedupe"

\* C9 as stated: the steps of one message happen in the fixed order, a step
\* starts only after the previous one succeeded, and after a step failed for good
\* no later step is executed.
C9_StepsOnlyAfterSuccess ==
    /\ StepsInOrder
    /\ \A j \in 2..Len(log) : outcome[log[j - 1]] = "ok"
    /\ \A j \in 1..Len(log) : outcome[log[j]] = "failed" => j = Len(log)

\* C9 amended: as stated, except that a de-dupe lookup that failed for good is
\* followed by the MIME download.
C9_StepsOnlyAfterSuccessOrFailOpen ==
    /\ StepsInOrder
    /\ \A j \in 2..Len(log) :
          \/ outcome[log[j - 1]] = "ok"
          \/ (log[j - 1] = "dedupe" /\ log[j] = "mime")
    /\ \A j \in 1..Len(log) :
          outcome[log[j]] = "failed" => (j = Len(log) \/ log[j] = "dedupe")

\* the lookup failed open, the pipeline went on, and the resolve GET failed for good
C9_Witness ==
    /\ ui = "taskpane" /\ mpc = "thrown"
    /\ outcome["dedupe"] = "failed" /\ outcome["resolve"] = "failed"
    /\ log = <<"meta", "dedupe", "mime", "session", "chunk", "resolve">>

\* C10: task pane, the library has the InternetMessageId column, the message has
\* an internetMessageId and the lookup returned an item: no request after the
\* lookup is issued for the message, and the message is counted as a success.
C10_DedupeSkip ==
    /\ (ui = "taskpane" /\ found > 0) =>
          /\ FIELD_INTERNET_ID \in availableFields /\ msg.imid
          /\ log = <<"meta", "dedupe">>
          /\ call.step = "dedupe"
          /\ mpc # "thrown" /\ cur \notin threw
    /\ lastDone.dup => lastDone.counted = "success"

\* the second message of a run was skipped as a duplicate and counted as a success
C10_Witness ==
    /\ ui = "taskpane" /\ rpc = "loop"
    /\ lastDone = [id |-> 2, dup |-> TRUE, counted |-> "success"]
    /\ success = 2 /\ cur = 3

CountBy(id) == Cardinality({k \in DOMAIN lib.files : lib.files[k].by = id})

\* C11: however often a message that has an internetMessageId is archived into
\* the library (in one run, in later runs, through 'Retry Failed Uploads' or
\* through the dialog), the library holds at most one .eml file of it.
C11_AtMostOneEmlPerMessage ==
    \A id \in 1..MaxSelected : mailbox[id].imid => CountBy(id) <= 1

InLog(step) == \E j \in 1..Len(log) : log[j] = step

\* the PUTs rs cover a prefix of [0, tot) without gap or overlap, in chunks of
\* 1..chunkSize bytes of which only the last may be short
RangesOK(rs, tot) ==
    /\ \A k \in 1..Len(rs) :
          /\ rs[k].total = tot
          /\ rs[k].length >= 1 /\ rs[k].length <= 5 * 1024 * 1024
          /\ rs[k].end = rs[k].offset + rs[k].length - 1
          /\ rs[k].end <= tot - 1
    /\ rs # <<>> => rs[1].offset = 0
    /\ \A k \in 1..(Len(rs) - 1) :
          /\ rs[k + 1].offset = rs[k].end + 1
          /\ rs[k].length = 5 * 1024 * 1024

\* the PUTs rs cover all of [0, tot)
RangesComplete(rs, tot) ==
    IF tot = 0 THEN rs = <<>> ELSE rs # <<>> /\ rs[Len(rs)].end = tot - 1

\* C12: the chunk PUTs of a blob of `total` bytes partition [0, total): the first
\* starts at 0, each starts where the previous ended, each holds 1..5 MiB, only
\* the last may be shorter, the last ends at total - 1, Content-Range is
\* offset-end/total with end = offset + size - 1, and total = 0 issues no PUT.
\* It holds for uploadInChunksWithRetry (both copies) and for uploadBlobToFolderId.
C12_ChunksPartitionBlob ==
    /\ RangesOK(sent, total)
    /\ total = 0 => sent = <<>>
    /\ InLog("resolve") => RangesComplete(sent, total)
    /\ InLog("session") =>
          /\ RangesOK(uploadBlobToFolderId_puts(uploadUrl, 0, total), total)
          /\ RangesComplete(uploadBlobToFolderId_puts(uploadUrl, 0, total), total)
          /\ InLog("resolve") => sent = uploadBlobToFolderId_puts(uploadUrl, 0, total)

\* a blob of 5 MiB + 1 byte went up in two PUTs, the second of one byte
C12_Witness ==
    /\ InLog("resolve") /\ total = 5 * 1024 * 1024 + 1 /\ Len(sent) = 2
    /\ sent[1].offset = 0 /\ sent[1].end = 5 * 1024 * 1024 - 1
    /\ sent[2].offset = 5 * 1024 * 1024 /\ sent[2].end = 5 * 1024 * 1024
    /\ sent[2].length = 1

\* C13: a chunk PUT answered 429 or 5xx is sent again with the same byte range to
\* the same upload URL; the offset advances only after a PUT was accepted (2xx),
\* and then to the byte after that chunk; an accepted chunk is never sent again;
\* after a chunk failed for good no later chunk is sent.
C13_ResumableChunks ==
    /\ [][(call.step = "chunk" /\ call'.step = "chunk" /\ call'.calls > call.calls) =>
             /\ StatusIs429or5xx(call.resp)
             /\ put' = put /\ uploadUrl' = uploadUrl /\ offset' = offset /\ sent' = sent]_vars
    /\ [][offset' # offset =>
             \/ /\ call.step = "chunk" /\ call.pc = "returned" /\ HttpOk(call.resp)
                /\ offset' = put[1].end + 1
             \/ offset' = 0 /\ log' = <<"meta">>
             \/ offset' = 0 /\ rpc' = "idle"]_vars
    /\ [](call.step = "chunk" /\ mpc # "none" =>
             /\ put = <<sent[Len(sent)]>>
             /\ put[1].offset = offset /\ put[1].url = uploadUrl)
    /\ [](\A k \in 1..(Len(sent) - 1) : sent[k + 1].offset > sent[k].end)
    /\ [](outcome["chunk"] = "failed" =>
             /\ mpc \in {"thrown", "none"} /\ call.step = "chunk" /\ call.pc = "thrown"
             /\ put = <<sent[Len(sent)]>> /\ offset = put[1].offset)

\* the first chunk was accepted; the second was answered 503 and is in flight again
C13_Witness ==
    /\ call.step = "chunk" /\ call.pc = "pending" /\ call.calls = 2 /\ call.resp = 503
    /\ Len(sent) = 2 /\ offset = 5 * 1024 * 1024 /\ put[1].offset = offset

\* C14: the list item whose fields are patched for a message is the item that
\* message's own upload created, also when the folder already holds a file of
\* the same name.
C14_PatchesOwnItem ==
    (lib.tracked /\ created # 0 /\ InLog("patch")) => resolved = created

\* C15: a message is counted in `success` only if every chunk of its .eml was
\* accepted and its fields PATCH was answered 2xx, or (task pane) the de-dupe
\* lookup found it archived already.
C15_SuccessMeansCompleted ==
    [][success' = success + 1 =>
          \/ ui = "taskpane" /\ call.step = "dedupe" /\ found > 0
          \/ /\ call.step = "patch" /\ HttpOk(call.resp)
             /\ offset = total /\ RangesComplete(sent, total)]_vars

\* C16: in the dialog the drive path of the createUploadSession URL is the path
\* of the chosen folder (its folder names from the library root) followed by the
\* file name.
C16_DialogUploadsIntoChosenFolder ==
    (ui = "dialog" /\ InLog("session")) =>
        sessionPath = Append(ChosenFolder.path, safeFileNameFromSubject(ui, SubjectOf(cur)))

FirstTen(ids) == SubSeq(ids, 1, IF Len(ids) < 10 THEN Len(ids) ELSE 10)

\* C17: the dialog, given n identifiers, attempts the first min(10, n) of them in
\* the order received and nothing else: no request is issued for an identifier
\* at position 11 or later, and when the loop ends all of the first min(10, n)
\* were attempted and success + failed.length = min(10, n).
C17_DialogFirstTen ==
    ui = "dialog" =>
        /\ Len(attempted) <= Len(FirstTen(sel))
        /\ attempted = SubSeq(sel, 1, Len(attempted))
        /\ mpc # "none" => \E k \in 1..Len(FirstTen(sel)) : cur = sel[k]
        /\ rpc = "done" =>
              /\ attempted = FirstTen(sel)
              /\ success + Len(failed) = Len(FirstTen(sel))

\* eleven identifiers were received; the run ended after ten, one of them failed
C17_Witness ==
    /\ ui = "dialog" /\ Len(sel) = 11 /\ rpc = "done"
    /\ Len(attempted) = 10 /\ success = 9 /\ Len(failed) = 1

\* C18: task pane, the de-dupe lookup fails open: a lookup that failed for good,
\* a message without internetMessageId and a library without the
\* InternetMessageId column all lead to the MIME download; the message is then
\* neither skipped nor failed on account of the lookup.
C18_DedupeFailsOpen ==
    ui = "taskpane" =>
        /\ (outcome["meta"] = "ok" /\ ~(msg.imid /\ FIELD_INTERNET_ID \in availableFields)) =>
              /\ ~InLog("dedupe")
              /\ Len(log) >= 2 /\ log[2] = "mime"
        /\ outcome["dedupe"] = "failed" =>
              /\ found = 0
              /\ Len(log) >= 3 /\ log[2] = "dedupe" /\ log[3] = "mime"
        /\ mpc = "thrown" => call.step # "dedupe"
        /\ (mpc = "returned" /\ call.step = "dedupe") => (call.pc = "returned" /\ found > 0)

\* the lookup failed for good and the message was archived all the same
C18_Witness ==
    /\ ui = "taskpane" /\ mpc = "returned" /\ outcome["dedupe"] = "failed"
    /\ log = <<"meta", "dedupe", "mime", "session", "chunk", "resolve", "patch">>
    /\ outcome["patch"] = "ok"

KnownFields == {FIELD_FROM, FIELD_FROM_ADDRESS, FIELD_RECEIVED, FIELD_ATTACHMENT,
                FIELD_ORIGINAL_LINK, FIELD_INTERNET_ID}

\* C19: every field name in the body of the fields PATCH is a column of the
\* target library's list, in the task pane and in the dialog, and the dialog
\* sends no PATCH when the list has none of the six known columns.
C19_OnlyExistingColumns ==
    /\ InLog("patch") =>
          payload \subseteq (IF ui = "taskpane" THEN availableFields ELSE fields)
    /\ (ui = "dialog" /\ outcome["columns"] = "ok" /\ fields \cap KnownFields = {}) =>
          ~InLog("patch")

\* C20: 'Retry Failed Uploads' attempts the identifiers that were in bulkFailed,
\* each once and in order; when the retry run ends bulkFailed holds exactly the
\* identifiers that failed again, so one that succeeded is no longer in it.
C20_RetryFailedUploads ==
    retryIds # <<>> =>
        /\ restIds = retryIds
        /\ attempted = SubSeq(retryIds, 1, Len(attempted))
        /\ rpc = "done" =>
              /\ attempted = retryIds
              /\ bulkFailed = ThrewInOrder(retryIds)
              /\ \A k \in 1..Len(retryIds) :
                    retryIds[k] \notin threw =>
                        \A j \in 1..Len(bulkFailed) : bulkFailed[j] # retryIds[k]

\* both messages of a run failed; in the retry the first went through and the
\* second failed again
C20_Witness ==
    /\ rpc = "done" /\ retryIds = <<1, 2>> /\ bulkFailed = <<2>> /\ success = 1

\* C21: a message that failed in a task-pane bulk run and is attempted again
\* through 'Retry Failed Uploads' goes to the drive and folder path of its
\* original attempt: the retry run is given that drive and path, and the upload
\* session of each retried message is created at that path.
C21_RetryIntoOriginalFolder ==
    (ui = "taskpane" /\ retryIds # <<>>) =>
        /\ target = origin
        /\ InLog("session") =>
              sessionPath = Append(origin.path, safeFileNameFromSubject(ui, SubjectOf(cur)))

Running == rpc \in {"token", "site", "single", "loop"}
Ended == rpc \in {"done", "failed"}

\* Math.ceil(tot / chunkSize)
ChunksOf(tot) == (tot + chunkSize - 1) \div chunkSize

\* C22: a bulk run always terminates: whatever the server answers, as long as
\* every request is answered, the handler reaches its final status, having made
\* at most 4 calls per request, one accepted PUT per chunk and one pipeline per
\* identifier; and the dialog's `loading` is true during handleBulkArchive and
\* false when it has ended, also when the site id or a message failed.
C22_BulkRunTerminates ==
    /\ Running ~> Ended
    /\ [](call.calls <= 4 /\ Len(sent) <= ChunksOf(total) /\ i <= Len(restIds)
             /\ Len(attempted) <= (IF restIds = <<>> THEN 1 ELSE Len(restIds)))
    /\ [](Ended => ~(call.pc \in {"pending", "sleeping"}) /\ open = {})
    /\ []((ui = "dialog" /\ Running) => loading)
    /\ []((ui = "dialog" /\ Ended) => ~loading)

\* the dialog's run ended with both messages failed and `loading` is false again
C22_Witness ==
    /\ ui = "dialog" /\ rpc = "done" /\ failed = <<1, 2>> /\ success = 0 /\ ~loading

\* C23: the opener hands its payload to messageChild only when the dialog's
\* message listener is registered, however long the dialog's sign-in and library
\* loading take: no message is dispatched to a window without listener, the
\* message sent after the delay reaches the handler, and the restIds it carries
\* become incomingRestIds.
C23_PayloadAfterListener ==
    /\ inflight # <<>> => dpc = "listening"
    /\ lost = <<>>
    /\ (ppc = "sent" /\ inflight = <<>>) =>
          /\ received = outMsg
          /\ opener = "taskpane" => incomingRestIds = outMsg[1].restIds

\* C24: opened from the ribbon command, once the dialog's handler has processed
\* the command's message the dialog's favorites are the favorites stored under
\* "flowpoint:favorites", de-duplicated by folder id.
C24_RibbonSyncsFavorites ==
    (opener = "ribbon" /\ received # <<>>) =>
        dlgFavorites = uniqueByFolderId(parseStored(stored))

\* C25: every invocation of the ribbon command calls event.completed() exactly
\* once, whether the dialog opens, fails to open or displayDialogAsync throws.
C25_CompletedExactlyOnce ==
    opener = "ribbon" =>
        /\ completed <= 1
        /\ ppc # "start" => completed = 1

====
